---- MODULE Spec2Model ----
(***************************************************************************)
(* State-machine model of the waveshare-touch-epaper drivers:              *)
(*   EPD2in13  (epaper_display.py)  the SPI e-paper display driver         *)
(*   GT1151    (touch_screen.py)    the I2C touch controller driver        *)
(*                                                                         *)
(* The display driver is single threaded: each public method is one        *)
(* action, computed statement by statement up to the first exception.      *)
(* The touch driver runs an application thread and the gpiozero callback   *)
(* thread; both are modelled statement by statement with program counters. *)
(*                                                                         *)
(* Library behaviour assumed (gpiozero, spidev, smbus3): a handle is       *)
(* acquired by its constructor, close() on a closed handle is a no-op, and *)
(* any other use of a closed handle raises without performing I/O.         *)
(*                                                                         *)
(* epaper_display.py line 278 declares a parameter without default after   *)
(* parameters with defaults; the model reads the signature as declared:    *)
(* img is required and has no default.                                     *)
(***************************************************************************)
EXTENDS Integers, Sequences, FiniteSets, TLC

VARIABLES
    \* ---- EPD2in13 ----
    _remaining_partial_refresh, \* self._remaining_partial_refresh
    epd_ports,                  \* handles still held: subset of EPD_PORTS
    epd_rst,                    \* level of the RST line
    epd_dc,                     \* level of the DC line
    epd_log,                    \* the bytes written to the SPI bus so far, as (DC level, byte)
    epd_mark,                   \* length of epd_log when the last call started
    epd_op,                     \* the last public method called
    epd_full,                   \* its full argument (display only)
    epd_img,                    \* its img argument, as (width, height)
    epd_exc,                    \* the exception it raised, "none" if it returned
    epd_opened,                 \* history: open() returned and close() not called since
    \* ---- GT1151 ----
    gt,                         \* the touch driver, its lines and its two threads (see GtInit)
    \* ---- single functions applied to drawn arguments ----
    calc                        \* the arguments and what was sent for them; None otherwise

epd_vars == << _remaining_partial_refresh, epd_ports, epd_rst, epd_dc, epd_log,
               epd_mark, epd_op, epd_full, epd_img, epd_exc, epd_opened >>

vars == << epd_vars, gt, calc >>

(***************************************************************************)
(* EPD2in13: constants                                                     *)
(***************************************************************************)
WIDTH == 122
HEIGHT == 250
_MAX_PARTIAL_REFRESH == 50

\* Python values that may be None: None is the empty tuple, the integer n is <<n>>
None == << >>
PyInt(n) == << n >>
Val(v) == v[1]

EPD_PORTS == {"spi", "rst", "dc", "busy"}

\* self._COMMAND.get(cmd_key): the opcode, or None for a key not in the table
EPD_COMMAND(cmd_key) ==
    CASE cmd_key = "reset" -> PyInt(18)                      \* 0x12
      [] cmd_key = "driver_output_control" -> PyInt(1)       \* 0x01
      [] cmd_key = "data_entry_mode_setting" -> PyInt(17)    \* 0x11
      [] cmd_key = "set_ram_x" -> PyInt(68)                  \* 0x44
      [] cmd_key = "set_ram_y" -> PyInt(69)                  \* 0x45
      [] cmd_key = "border_waveform_control" -> PyInt(60)    \* 0x3c
      [] cmd_key = "temperature_sensor_control" -> PyInt(24) \* 0x18
      [] cmd_key = "deep_sleep_mode" -> PyInt(16)            \* 0x10
      [] cmd_key = "display_update_control" -> PyInt(33)     \* 0x21
      [] cmd_key = "set_ram_x_adress_counter" -> PyInt(78)   \* 0x4e
      [] cmd_key = "set_ram_y_adress_counter" -> PyInt(79)   \* 0x4f
      [] cmd_key = "write_ram_bw" -> PyInt(36)               \* 0x24
      [] cmd_key = "write_ram_red" -> PyInt(38)              \* 0x26
      [] OTHER -> None

\* Calls are made while the recorded bus trace is shorter than this.
MaxTrace == 12

\* The img arguments tried: the panel geometry and two other sizes.
Images == { <<WIDTH, HEIGHT>>, <<HEIGHT, WIDTH>>, <<8, 8>> }

(***************************************************************************)
(* EPD2in13: the driver state threaded through one call.                   *)
(*   ports, rst, dc, log, budget as the variables; exc the pending raise.  *)
(***************************************************************************)
Raise(s, e) == [s EXCEPT !.exc = e]

\* statement sequencing: F runs only when nothing was raised before it
Bind(s, F(_)) == IF s.exc # "none" THEN s ELSE F(s)

\* gpiozero OutputDevice.on()/off()
gpio_set(s, line, level) ==
    IF line \notin s.ports THEN Raise(s, "GPIODeviceClosed")
    ELSE IF line = "rst" THEN [s EXCEPT !.rst = level]
    ELSE [s EXCEPT !.dc = level]

\* spidev writebytes(list): every element must be an integer byte
spi_writebytes(s, data) ==
    IF \E i \in 1..Len(data) : data[i] = None THEN Raise(s, "TypeError")
    ELSE IF "spi" \notin s.ports THEN Raise(s, "OSError")
    ELSE [s EXCEPT !.log = @ \o [i \in 1..Len(data) |-> <<s.dc, Val(data[i])>>]]

\* setting spi.max_speed_hz / spi.mode
spi_configure(s) ==
    IF "spi" \notin s.ports THEN Raise(s, "OSError") ELSE s

EPD_send_command(s, cmd_key) ==
    Bind(gpio_set(s, "dc", 0),
         LAMBDA t : spi_writebytes(t, << EPD_COMMAND(cmd_key) >>))

_send_data(s, data) ==
    Bind(gpio_set(s, "dc", 1), LAMBDA t : spi_writebytes(t, << PyInt(data) >>))

_split_low_hi_bytes(large_byte) ==
    << large_byte % 256, large_byte \div 256 >>

\* self._split_low_hi_bytes(data): the method is declared with the single
\* parameter large_byte, so the bound call passes two positional arguments.
call_split_low_hi_bytes(s, data) == Raise(s, "TypeError")

_hw_reset(s) ==
    Bind(gpio_set(s, "rst", 1), LAMBDA t :
    Bind(gpio_set(t, "rst", 0), LAMBDA u : gpio_set(u, "rst", 1)))

_set_initial_configuration(s) ==
    Bind(spi_configure(s), LAMBDA t :
    Bind(_hw_reset(t), LAMBDA u : EPD_send_command(u, "reset")))

_set_gate_driver_output(s) ==
    Bind(EPD_send_command(s, "driver_output_control"), LAMBDA t :
    Bind(_send_data(t, 249), LAMBDA u :
    Bind(_send_data(u, 0), LAMBDA v : _send_data(v, 0))))

\* coords is None or (x_start, x_end, y_start, y_end)
_set_display_RAM_size(s, coords) ==
    LET w == IF coords = None THEN << 0, WIDTH - 1, 0, HEIGHT - 1 >> ELSE coords
    IN  Bind(EPD_send_command(s, "data_entry_mode_setting"), LAMBDA t1 :
        Bind(_send_data(t1, 3), LAMBDA t2 :
        Bind(EPD_send_command(t2, "set_ram_x"), LAMBDA t3 :
        Bind(_send_data(t3, w[1] \div 8), LAMBDA t4 :
        Bind(_send_data(t4, w[2] \div 8), LAMBDA t5 :
        Bind(EPD_send_command(t5, "set_ram_y"), LAMBDA t6 :
        call_split_low_hi_bytes(t6, w[3])))))))

_set_panel_border(s) ==
    Bind(EPD_send_command(s, "border_waveform_control"), LAMBDA t :
         _send_data(t, 5))

_set_display_source_mode(s) ==
    Bind(EPD_send_command(s, "display_update_control"), LAMBDA t :
    Bind(_send_data(t, 0), LAMBDA u : _send_data(u, 128)))

_send_initialization_code(s, coords) ==
    Bind(_set_gate_driver_output(s), LAMBDA t :
    Bind(_set_display_RAM_size(t, coords), LAMBDA u :
    Bind(_set_panel_border(u), LAMBDA v : _set_display_source_mode(v))))

_sense_temperature(s) ==
    Bind(EPD_send_command(s, "temperature_sense_control"), LAMBDA t :
         _send_data(t, 128))

\* the level the panel holds the BUSY line at while a call waits on it
BusyLevels == {0, 1}

\* gpiozero Button.wait_for_inactive() without timeout: it returns when the
\* line is low and never while the line stays high ("blocked": the call
\* neither returns nor raises)
_wait_busy_low(s, busy) ==
    IF "busy" \notin s.ports THEN Raise(s, "GPIODeviceClosed")
    ELSE IF busy = 1 THEN Raise(s, "blocked")
    ELSE s

_load_waveform_lut(s, busy) ==
    Bind(_sense_temperature(s), LAMBDA t : _wait_busy_low(t, busy))

\* every call site omits the required img argument
_write_image_and_drive_display_panel(s) == Raise(s, "TypeError")

_deep_sleep(s) ==
    Bind(EPD_send_command(s, "deep_sleep_mode"), LAMBDA t : _send_data(t, 17))

_power_off(s) ==
    Bind(_deep_sleep(s), LAMBDA t :
    Bind(gpio_set(t, "rst", 0), LAMBDA u : gpio_set(u, "dc", 0)))

_close_all_port(s) == [s EXCEPT !.ports = {}]

\* self._remaining_partial_refresh -= 1
budget_decrement(s) ==
    IF s.budget = None THEN Raise(s, "TypeError")
    ELSE [s EXCEPT !.budget = PyInt(Val(@) - 1)]

EPD_open_body(s) == _set_initial_configuration(s)

\* close() that also forgets the refresh budget
EPD_close_bodyForgetful(s) ==
    Bind(_power_off(s), LAMBDA t : _close_all_port([t EXCEPT !.budget = PyInt(0)]))

EPD_close_body(s) == Bind(_power_off(s), LAMBDA t : _close_all_port(t))

EPD_clear_body(s) == Raise(s, "NameError")

EPD_display_body(s, img, full, busy) ==
    IF full
    THEN Bind(_send_initialization_code(s, None), LAMBDA t1 :
         Bind(_load_waveform_lut(t1, busy), LAMBDA t2 :
         Bind(_write_image_and_drive_display_panel(t2), LAMBDA t3 :
              [t3 EXCEPT !.budget = PyInt(_MAX_PARTIAL_REFRESH)])))
    ELSE IF s.budget = PyInt(0) THEN Raise(s, "EpaperException")
    ELSE Bind(_send_initialization_code(s, << 0, 121, 0, 249 >>), LAMBDA t1 :
         Bind(_write_image_and_drive_display_panel(t1), LAMBDA t2 :
              budget_decrement(t2)))

(***************************************************************************)
(* EPD2in13: the public methods as actions                                 *)
(***************************************************************************)
EpdState ==
    [ports |-> epd_ports, rst |-> epd_rst, dc |-> epd_dc, log |-> epd_log,
     budget |-> _remaining_partial_refresh, exc |-> "none"]

\* a call is made only when the one before has returned or raised
EpdCommit(s, op, full, img, opened) ==
    /\ epd_exc # "blocked"
    /\ Len(epd_log) < MaxTrace
    /\ epd_mark' = Len(epd_log)
    /\ _remaining_partial_refresh' = s.budget
    /\ epd_ports' = s.ports
    /\ epd_rst' = s.rst
    /\ epd_dc' = s.dc
    /\ epd_log' = s.log
    /\ epd_exc' = s.exc
    /\ epd_op' = op
    /\ epd_full' = full
    /\ epd_img' = img
    /\ epd_opened' = opened
    /\ UNCHANGED gt
    /\ UNCHANGED calc

EPD_open ==
    LET s == EPD_open_body(EpdState)
    IN  EpdCommit(s, "open", FALSE, None, epd_opened \/ s.exc = "none")

EPD__enter__ ==
    LET s == EPD_open_body(EpdState)
    IN  EpdCommit(s, "__enter__", FALSE, None, epd_opened \/ s.exc = "none")

EPD_close ==
    EpdCommit(EPD_close_body(EpdState), "close", FALSE, None, FALSE)

EPD__exit__ ==
    EpdCommit(EPD_close_body(EpdState), "__exit__", FALSE, None, FALSE)

EPD_clear ==
    EpdCommit(EPD_clear_body(EpdState), "clear", FALSE, None, epd_opened)

EPD_display ==
    \E img \in Images, full \in BOOLEAN, busy \in BusyLevels :
        EpdCommit(EPD_display_body(EpdState, img, full, busy), "display", full,
                  img, epd_opened)

EpdInit ==
    /\ _remaining_partial_refresh = None
    /\ epd_ports = EPD_PORTS
    /\ epd_rst = 0
    /\ epd_dc = 0
    /\ epd_log = << >>
    /\ epd_mark = 0
    /\ epd_op = "__init__"
    /\ epd_full = FALSE
    /\ epd_img = None
    /\ epd_exc = "none"
    /\ epd_opened = FALSE

EpdNext ==
    \/ EPD_open
    \/ EPD__enter__
    \/ EPD_close
    \/ EPD__exit__
    \/ EPD_clear
    \/ EPD_display

(***************************************************************************)
(* GT1151: constants                                                       *)
(***************************************************************************)
GT_ADDRESS == 20    \* 0x14

GT_PORTS == {"bus", "trst", "int"}

_REGISTER(name) ==
    CASE name = "command" -> 32832               \* 0x8040
      [] name = "command_data" -> 32833          \* 0x8041
      [] name = "command_checksum" -> 32834      \* 0x8042
      [] name = "fw_request" -> 32836            \* 0x8044
      [] name = "coordinates_info" -> 33102      \* 0x814E
      [] name = "coordinates_values" -> 33103    \* 0x814F
      [] name = "product_id" -> 33088            \* 0x8140
      [] name = "gesture_type" -> 33100          \* 0x814C

GT_COMMAND(name) ==
    CASE name = "sleep_mode" -> 5
      [] name = "gesture_mode" -> 8

Threads == {"app", "irq"}

\* What the controller may answer on the bus.
Points == {0, 1}                 \* low byte of a coordinate
TouchCounts == {0, 1, 2, 11}     \* bits 0-3 of coordinates_info
InfoBytes == { ready * 128 + n : ready \in {0, 1}, n \in TouchCounts }
Requests == {0, 1, 3}            \* first byte of fw_request

(***************************************************************************)
(* GT1151: pure helpers                                                    *)
(***************************************************************************)
Pow2(n) == IF n = 0 THEN 1 ELSE IF n = 1 THEN 2 ELSE IF n = 2 THEN 4
           ELSE IF n = 3 THEN 8 ELSE IF n = 4 THEN 16 ELSE IF n = 5 THEN 32
           ELSE IF n = 6 THEN 64 ELSE IF n = 7 THEN 128 ELSE 256

_get_bits(value, first_bit, last_bit) ==
    LET shift == first_bit
        nbits == last_bit - first_bit + 1
        mask == Pow2(nbits) - 1
    IN  (value \div Pow2(shift)) % (mask + 1)

_add_lo_hi_bytes(low_byte, high_byte) == high_byte * 256 + low_byte

\* bus.write_word_data(address, register, word) as sent by _i2c_writebyte
_i2c_writebyte(reg, value) ==
    [op |-> "write_word_data", addr |-> GT_ADDRESS,
     cmd |-> (reg \div 256) % 256,
     data |-> (reg % 256) + (value % 256) * 256]

\* bus.write_byte_data(address, register, byte) as sent by _i2c_write
_i2c_write(reg) ==
    [op |-> "write_byte_data", addr |-> GT_ADDRESS,
     cmd |-> (reg \div 256) % 256, data |-> reg % 256]

\* length calls of bus.read_byte(address)
read_bytes(length) ==
    [op |-> "read_byte", addr |-> GT_ADDRESS, cmd |-> 0, data |-> length]

\* _send_command with the checksum taken as the one's complement of the sum
_send_commandOnesComplement(command, data) ==
    LET check_sum == 255 - command - data
    IN  << _i2c_writebyte(_REGISTER("command"), command),
           _i2c_writebyte(_REGISTER("command_data"), data),
           _i2c_writebyte(_REGISTER("command_checksum"), check_sum) >>

\* the three register writes of _send_command(command, data)
_send_command(command, data) ==
    LET check_sum == 256 - command - data
    IN  << _i2c_writebyte(_REGISTER("command"), command),
           _i2c_writebyte(_REGISTER("command_data"), data),
           _i2c_writebyte(_REGISTER("command_checksum"), check_sum) >>

(***************************************************************************)
(* GT1151: the driver object, its lines and the two threads.               *)
(* "app" is the application thread calling the public methods, "irq" the   *)
(* gpiozero thread running the callback bound to when_pressed.             *)
(***************************************************************************)
NoCoord == << 0, 0 >>

\* From MaxPending unanswered reads on, the history counter stops counting
MaxPending == 2

GtInit ==
    gt = [ _x |-> 0, _y |-> 0,             \* self._x[0], self._y[0]
           _stopped |-> FALSE,
           _started |-> FALSE,
           _mode |-> "None",
           _touch_detected |-> FALSE,      \* flag of the Event
           when_pressed |-> "None",        \* callback bound to the INT line
           ports |-> GT_PORTS,             \* handles still held
           trst |-> 0,                     \* level of the TRST line
           i2c_last |-> read_bytes(0),     \* last transfer on the I2C bus
           pc |-> [T \in Threads |-> "idle"],
           exc |-> [T \in Threads |-> "none"],
           app_op |-> "__init__",          \* method the app thread runs or ran last
           old_coord |-> NoCoord,          \* locals of input()
           new_coord |-> NoCoord,
           buf |-> << >>,                  \* handler locals
           n_touch_points |-> 0,
           i |-> 0,
           last_read |-> NoCoord,  \* history: (x, y) of the sample read last
           pending |-> 0,          \* history: reads of a changed (x, y) that no
                                   \* return of input() has answered yet
           pulse |-> [T \in Threads |-> 0] ]
                                   \* history: how far the running call of the
                                   \* thread is through TRST high (1), low (2),
                                   \* high (3)

\* the locals of a thread are dropped when its call ends
DropLocals(g, T) ==
    IF T = "app" THEN [g EXCEPT !.old_coord = NoCoord, !.pulse[T] = 0]
    ELSE [g EXCEPT !.buf = << >>, !.n_touch_points = 0, !.i = 0, !.pulse[T] = 0]

Raised(g, T, e) ==
    DropLocals([g EXCEPT !.pc[T] = "idle", !.exc[T] = e], T)

Returned(g, T) ==
    DropLocals([g EXCEPT !.pc[T] = "idle", !.exc[T] = "none"], T)

Goto(g, T, l) == [g EXCEPT !.pc[T] = l]

\* a transfer on the I2C bus, continuing at statement l
Transfer(g, T, t, l) ==
    IF "bus" \in g.ports
    THEN [g EXCEPT !.i2c_last = t, !.pc[T] = l]
    ELSE Raised(g, T, "OSError")

\* self._gpio_trst.on() / off()
TrstWrite(g, T, level, l) ==
    IF "trst" \in g.ports
    THEN [g EXCEPT !.trst = level, !.pc[T] = l]
    ELSE Raised(g, T, "GPIODeviceClosed")

\* self._gpio_int.when_pressed = callback; on a closed Button the assignment
\* either is stored or raises, depending on the gpiozero release
BindCallback(g, T, callback, l) ==
    { [g EXCEPT !.when_pressed = callback, !.pc[T] = l] }
    \cup (IF "int" \in g.ports THEN {} ELSE { Raised(g, T, "GPIODeviceClosed") })

(***************************************************************************)
(* GT1151._reset, _enter_normal_mode, _enter_sleep_mode, _send_command,    *)
(* _get_product_id: one action per statement.  _reset and                  *)
(* _enter_normal_mode run in either thread.                                *)
(***************************************************************************)
AfterReset(T) ==
    IF T = "app" /\ gt.app_op \in {"stop", "__exit__"} THEN "sleep_disarm"
    ELSE "normal_arm"

AfterNormal(T) ==
    IF T = "irq" THEN "fw_ack"
    ELSE IF gt.app_op = "input" THEN "input_old_x"
    ELSE "pid_write"

_reset_disarm(T) ==
    /\ UNCHANGED << epd_vars, calc >>
    /\ gt.pc[T] = "reset_disarm"
    /\ gt' \in BindCallback(gt, T, "noop", "reset_high")

_reset_high(T) ==
    /\ UNCHANGED << epd_vars, calc >>
    /\ gt.pc[T] = "reset_high"
    /\ gt' = TrstWrite([gt EXCEPT !.pulse[T] = 1], T, 1, "reset_low")

_reset_low(T) ==
    /\ UNCHANGED << epd_vars, calc >>
    /\ gt.pc[T] = "reset_low"
    /\ gt' = TrstWrite([gt EXCEPT !.pulse[T] = IF @ = 1 THEN 2 ELSE 0], T, 0,
                        "reset_high2")

_reset_high2(T) ==
    /\ UNCHANGED << epd_vars, calc >>
    /\ gt.pc[T] = "reset_high2"
    /\ gt' = TrstWrite([gt EXCEPT !.pulse[T] = IF @ = 2 THEN 3 ELSE 0], T, 1,
                        AfterReset(T))

_enter_normal_mode_arm(T) ==
    /\ UNCHANGED << epd_vars, calc >>
    /\ gt.pc[T] = "normal_arm"
    /\ gt' \in BindCallback(gt, T, "_process_coordinate_reading", "normal_mode")

_enter_normal_mode_mode(T) ==
    /\ UNCHANGED << epd_vars, calc >>
    /\ gt.pc[T] = "normal_mode"
    /\ gt' = [gt EXCEPT !._mode = "normal", !.pc[T] = AfterNormal(T)]

_get_product_id_write ==
    /\ UNCHANGED << epd_vars, calc >>
    /\ gt.pc["app"] = "pid_write"
    /\ gt' = Transfer(gt, "app", _i2c_write(_REGISTER("product_id")), "pid_read")

_get_product_id_read ==
    /\ UNCHANGED << epd_vars, calc >>
    /\ gt.pc["app"] = "pid_read"
    /\ gt' = Transfer(gt, "app", read_bytes(4), "set_started")

set_started ==
    /\ UNCHANGED << epd_vars, calc >>
    /\ gt.pc["app"] = "set_started"
    /\ gt' = Returned([gt EXCEPT !._started = TRUE], "app")

_enter_sleep_mode_disarm ==
    /\ UNCHANGED << epd_vars, calc >>
    /\ gt.pc["app"] = "sleep_disarm"
    /\ gt' \in BindCallback(gt, "app", "noop", "sleep_command")

_enter_sleep_mode_command ==
    /\ UNCHANGED << epd_vars, calc >>
    /\ gt.pc["app"] = "sleep_command"
    /\ gt' = Transfer(gt, "app", _send_command(GT_COMMAND("sleep_mode"), 0)[1],
                      "sleep_data")

_enter_sleep_mode_data ==
    /\ UNCHANGED << epd_vars, calc >>
    /\ gt.pc["app"] = "sleep_data"
    /\ gt' = Transfer(gt, "app", _send_command(GT_COMMAND("sleep_mode"), 0)[2],
                      "sleep_checksum")

_enter_sleep_mode_checksum ==
    /\ UNCHANGED << epd_vars, calc >>
    /\ gt.pc["app"] = "sleep_checksum"
    /\ gt' = Transfer(gt, "app", _send_command(GT_COMMAND("sleep_mode"), 0)[3],
                      "sleep_mode")

_enter_sleep_mode_mode ==
    /\ UNCHANGED << epd_vars, calc >>
    /\ gt.pc["app"] = "sleep_mode"
    /\ gt' = IF gt.app_op = "sleep"
             THEN Returned([gt EXCEPT !._mode = "sleep"], "app")
             ELSE [gt EXCEPT !._mode = "sleep", !.pc["app"] = "close_bus"]

(***************************************************************************)
(* GT1151.stop after _enter_sleep_mode                                     *)
(***************************************************************************)
stop_close_bus ==
    /\ UNCHANGED << epd_vars, calc >>
    /\ gt.pc["app"] = "close_bus"
    /\ gt' = [gt EXCEPT !.ports = @ \ {"bus"}, !.pc["app"] = "trst_off"]

stop_trst_off ==
    /\ UNCHANGED << epd_vars, calc >>
    /\ gt.pc["app"] = "trst_off"
    /\ gt' = TrstWrite(gt, "app", 0, "close_trst")

stop_close_trst ==
    /\ UNCHANGED << epd_vars, calc >>
    /\ gt.pc["app"] = "close_trst"
    /\ gt' = [gt EXCEPT !.ports = @ \ {"trst"}, !.pc["app"] = "close_int"]

stop_close_int ==
    /\ UNCHANGED << epd_vars, calc >>
    /\ gt.pc["app"] = "close_int"
    /\ gt' = [gt EXCEPT !.ports = @ \ {"int"}, !.pc["app"] = "set_stopped"]

stop_set_stopped ==
    /\ UNCHANGED << epd_vars, calc >>
    /\ gt.pc["app"] = "set_stopped"
    /\ gt' = Returned([gt EXCEPT !._stopped = TRUE], "app")

(***************************************************************************)
(* GT1151: the public methods, from the call to the first statement that   *)
(* another thread can observe.  _check_if_started and _check_if_stopped    *)
(* read flags that only the application thread writes.                     *)
(***************************************************************************)
Call(op) == [gt EXCEPT !.app_op = op, !.exc["app"] = "none", !.new_coord = NoCoord]

_check_if_stopped(g) == g._stopped     \* TRUE: raises TouchEpaperException

_check_if_started(g) == ~ g._started   \* TRUE: raises TouchEpaperException

GT__enter__ ==
    /\ UNCHANGED << epd_vars, calc >>
    /\ gt.pc["app"] = "idle"
    /\ gt' = Goto(Call("__enter__"), "app", "reset_disarm")

GT_start ==
    /\ UNCHANGED << epd_vars, calc >>
    /\ gt.pc["app"] = "idle"
    /\ gt' = IF _check_if_stopped(gt)
             THEN Raised(Call("start"), "app", "TouchEpaperException")
             ELSE Goto(Call("start"), "app", "reset_disarm")

GT_sleep ==
    /\ UNCHANGED << epd_vars, calc >>
    /\ gt.pc["app"] = "idle"
    /\ gt' = IF _check_if_started(gt) \/ _check_if_stopped(gt)
             THEN Raised(Call("sleep"), "app", "TouchEpaperException")
             ELSE Goto(Call("sleep"), "app", "sleep_disarm")

\* stop() going to _enter_sleep_mode without _reset
stop_callWithoutReset(op) ==
    IF _check_if_stopped(gt)
    THEN Raised(Call(op), "app", "TouchEpaperException")
    ELSE Goto(Call(op), "app", "sleep_disarm")

\* stop() up to its first statement after _check_if_stopped, called as op
stop_call(op) ==
    IF _check_if_stopped(gt)
    THEN Raised(Call(op), "app", "TouchEpaperException")
    ELSE Goto(Call(op), "app", "reset_disarm")

GT_stop ==
    /\ UNCHANGED << epd_vars, calc >>
    /\ gt.pc["app"] = "idle"
    /\ gt' = stop_call("stop")

\* __exit__ calling stop() whether or not the driver was stopped
GT__exit__Unguarded ==
    /\ UNCHANGED << epd_vars, calc >>
    /\ gt.pc["app"] = "idle"
    /\ gt' = stop_call("__exit__")

GT__exit__ ==
    /\ UNCHANGED << epd_vars, calc >>
    /\ gt.pc["app"] = "idle"
    /\ gt' = IF ~ gt._stopped
             THEN stop_call("__exit__")
             ELSE Returned(Call("__exit__"), "app")

\* input() raising outside normal mode instead of switching
GT_inputFailFast ==
    /\ UNCHANGED << epd_vars, calc >>
    /\ gt.pc["app"] = "idle"
    /\ gt' = IF _check_if_started(gt) \/ _check_if_stopped(gt)
             THEN Raised(Call("input"), "app", "TouchEpaperException")
             ELSE IF ~ (gt._mode = "normal")
             THEN Raised(Call("input"), "app", "TouchEpaperException")
             ELSE Goto(Call("input"), "app", "input_old_x")

\* input() declares no parameter, so every call that runs is input()
GT_input ==
    /\ UNCHANGED << epd_vars, calc >>
    /\ gt.pc["app"] = "idle"
    /\ gt' = IF _check_if_started(gt) \/ _check_if_stopped(gt)
             THEN Raised(Call("input"), "app", "TouchEpaperException")
             ELSE IF ~ (gt._mode = "normal")
             THEN Goto(Call("input"), "app", "reset_disarm")
             ELSE Goto(Call("input"), "app", "input_old_x")

(***************************************************************************)
(* GT1151.input: the reads of self._x[0] and self._y[0] are separate       *)
(* statements of the interpreter, as are clear() and wait().               *)
(***************************************************************************)
input_old_x ==
    /\ UNCHANGED << epd_vars, calc >>
    /\ gt.pc["app"] = "input_old_x"
    /\ gt' = [gt EXCEPT !.old_coord[1] = gt._x, !.pc["app"] = "input_old_y"]

input_old_y ==
    /\ UNCHANGED << epd_vars, calc >>
    /\ gt.pc["app"] = "input_old_y"
    /\ gt' = [gt EXCEPT !.old_coord[2] = gt._y, !.pc["app"] = "input_new_x"]

input_new_x ==
    /\ UNCHANGED << epd_vars, calc >>
    /\ gt.pc["app"] \in {"input_new_x", "input_loop_x"}
    /\ gt' = [gt EXCEPT !.new_coord[1] = gt._x,
                        !.pc["app"] = IF gt.pc["app"] = "input_new_x"
                                      THEN "input_new_y" ELSE "input_loop_y"]

input_new_y ==
    /\ UNCHANGED << epd_vars, calc >>
    /\ gt.pc["app"] \in {"input_new_y", "input_loop_y"}
    /\ gt' = [gt EXCEPT !.new_coord[2] = gt._y, !.pc["app"] = "input_clear"]

input_clear ==
    /\ UNCHANGED << epd_vars, calc >>
    /\ gt.pc["app"] = "input_clear"
    /\ gt' = [gt EXCEPT !._touch_detected = FALSE, !.pc["app"] = "input_while"]

\* while new_coord == old_coord: ...   return new_coord
input_while ==
    /\ UNCHANGED << epd_vars, calc >>
    /\ gt.pc["app"] = "input_while"
    /\ gt' = IF gt.new_coord = gt.old_coord
             THEN Goto(gt, "app", "input_wait")
             ELSE Returned([gt EXCEPT !.pending = IF @ \in 1..(MaxPending - 1)
                                                   THEN @ - 1 ELSE @], "app")

\* self._touch_detected.wait(): returns once the flag is set
input_wait ==
    /\ UNCHANGED << epd_vars, calc >>
    /\ gt.pc["app"] = "input_wait"
    /\ gt._touch_detected
    /\ gt' = Goto(gt, "app", "input_loop_x")

(***************************************************************************)
(* GT1151._process_coordinate_reading, run by the gpiozero thread when     *)
(* the INT line is pressed (triggered keeps its default True).             *)
(***************************************************************************)
irq_fire ==
    /\ UNCHANGED << epd_vars, calc >>
    /\ gt.pc["irq"] = "idle"
    /\ "int" \in gt.ports
    /\ gt.when_pressed = "_process_coordinate_reading"
    /\ gt' = [gt EXCEPT !.pc["irq"] = "info_write", !.exc["irq"] = "none"]

info_write ==
    /\ UNCHANGED << epd_vars, calc >>
    /\ gt.pc["irq"] = "info_write"
    /\ gt' = Transfer(gt, "irq", _i2c_write(_REGISTER("coordinates_info")),
                      "info_read")

info_read ==
    /\ UNCHANGED << epd_vars, calc >>
    /\ gt.pc["irq"] = "info_read"
    /\ \E b \in InfoBytes :
        LET buffer_status == _get_bits(b, 7, 7)
            n_touch_points == _get_bits(b, 0, 3)
            next == IF buffer_status = 0 THEN "fw_write"
                    ELSE IF n_touch_points > 0 THEN "coord_write"
                    ELSE "info_ack"
        IN  gt' = Transfer([gt EXCEPT !.buf = << b >>,
                                      !.n_touch_points = n_touch_points],
                           "irq", read_bytes(1), next)

\* _answer_to_FW_request
fw_write ==
    /\ UNCHANGED << epd_vars, calc >>
    /\ gt.pc["irq"] = "fw_write"
    /\ gt' = Transfer(gt, "irq", _i2c_write(_REGISTER("fw_request")), "fw_read")

\* _answer_to_FW_request returning from its first branch, before line 224
fw_readReturnsEarly ==
    /\ UNCHANGED << epd_vars, calc >>
    /\ gt.pc["irq"] = "fw_read"
    /\ \E request \in Requests :
        gt' = Transfer([gt EXCEPT !.buf = << request, 0, 0 >>], "irq",
                       read_bytes(3),
                       IF request = 1 THEN "idle"
                       ELSE IF request = 3 THEN "reset_disarm"
                       ELSE "fw_ack")

fw_read ==
    /\ UNCHANGED << epd_vars, calc >>
    /\ gt.pc["irq"] = "fw_read"
    /\ \E request \in Requests :
        gt' = Transfer([gt EXCEPT !.buf = << request, 0, 0 >>], "irq",
                       read_bytes(3),
                       IF request = 1 THEN "fw_ack"
                       ELSE IF request = 3 THEN "reset_disarm"
                       ELSE "fw_ack")

fw_ack ==
    /\ UNCHANGED << epd_vars, calc >>
    /\ gt.pc["irq"] = "fw_ack"
    /\ gt' = LET g == Transfer(gt, "irq",
                               _i2c_writebyte(_REGISTER("fw_request"), 0), "idle")
             IN  IF g.exc["irq"] = "none" THEN Returned(g, "irq") ELSE g

\* _read_coordinates: buf holds the 8 byte record of the first point
\* (status, x low, x high, y low, y high, size low, size high, reserved)
coord_write ==
    /\ UNCHANGED << epd_vars, calc >>
    /\ gt.pc["irq"] = "coord_write"
    /\ gt' = Transfer(gt, "irq", _i2c_write(_REGISTER("coordinates_values")),
                      "coord_read")

\* the record of the samples read from the controller, where one is kept
Sampled(c, g, sample) ==
    IF DOMAIN c = {} \/ "bus" \notin g.ports THEN c
    ELSE [c EXCEPT !.samples = @ \cup {sample}]

coord_read ==
    /\ UNCHANGED epd_vars
    /\ gt.pc["irq"] = "coord_read"
    /\ \E x \in Points, y \in Points :
        LET changed == "bus" \in gt.ports /\ << x, y >> # gt.last_read
        IN  /\ gt' = Transfer([gt EXCEPT !.buf = << 0, x, 0, y, 0, 0, 0, 0 >>,
                                         !.i = 0,
                                         !.last_read = IF changed THEN << x, y >> ELSE @,
                                         !.pending = IF changed /\ @ < MaxPending
                                                     THEN @ + 1 ELSE @],
                              "irq", read_bytes(gt.n_touch_points * 8), "store_x")
            /\ calc' = Sampled(calc, gt, << x, y >>)

\* self._x[i] = ...: the lists have 10 slots; only slot 0 is read by input()
store_x ==
    /\ UNCHANGED << epd_vars, calc >>
    /\ gt.pc["irq"] = "store_x"
    /\ gt' = IF gt.i >= 10 THEN Raised(gt, "irq", "IndexError")
             ELSE IF gt.i = 0
             THEN [gt EXCEPT !._x = _add_lo_hi_bytes(gt.buf[2], gt.buf[3]),
                             !.pc["irq"] = "store_y"]
             ELSE Goto(gt, "irq", "store_y")

\* self._y[i] = ...; self._s[i] = ... (self._s is read by nothing)
store_y ==
    /\ UNCHANGED << epd_vars, calc >>
    /\ gt.pc["irq"] = "store_y"
    /\ LET next == IF gt.i + 1 < gt.n_touch_points THEN "store_x" ELSE "set_event"
       IN  gt' = IF gt.i = 0
                 THEN [gt EXCEPT !._y = _add_lo_hi_bytes(gt.buf[4], gt.buf[5]),
                                 !.i = @ + 1, !.pc["irq"] = next]
                 ELSE [gt EXCEPT !.i = @ + 1, !.pc["irq"] = next]

set_event ==
    /\ UNCHANGED << epd_vars, calc >>
    /\ gt.pc["irq"] = "set_event"
    /\ gt' = [gt EXCEPT !._touch_detected = TRUE, !.pc["irq"] = "info_ack"]

info_ack ==
    /\ UNCHANGED << epd_vars, calc >>
    /\ gt.pc["irq"] = "info_ack"
    /\ gt' = LET g == Transfer(gt, "irq",
                               _i2c_writebyte(_REGISTER("coordinates_info"), 0),
                               "idle")
             IN  IF g.exc["irq"] = "none" THEN Returned(g, "irq") ELSE g

(***************************************************************************)
(* GT1151: next-state relation                                             *)
(***************************************************************************)
AppCall ==
    \/ GT__enter__
    \/ GT_start
    \/ GT_sleep
    \/ GT_stop
    \/ GT__exit__
    \/ GT_input

AppStep ==
    \/ _reset_disarm("app")
    \/ _reset_high("app")
    \/ _reset_low("app")
    \/ _reset_high2("app")
    \/ _enter_normal_mode_arm("app")
    \/ _enter_normal_mode_mode("app")
    \/ _get_product_id_write
    \/ _get_product_id_read
    \/ set_started
    \/ _enter_sleep_mode_disarm
    \/ _enter_sleep_mode_command
    \/ _enter_sleep_mode_data
    \/ _enter_sleep_mode_checksum
    \/ _enter_sleep_mode_mode
    \/ stop_close_bus
    \/ stop_trst_off
    \/ stop_close_trst
    \/ stop_close_int
    \/ stop_set_stopped
    \/ input_old_x
    \/ input_old_y
    \/ input_new_x
    \/ input_new_y
    \/ input_clear
    \/ input_while
    \/ input_wait

IrqStep ==
    \/ info_write
    \/ info_read
    \/ fw_write
    \/ fw_read
    \/ _reset_disarm("irq")
    \/ _reset_high("irq")
    \/ _reset_low("irq")
    \/ _reset_high2("irq")
    \/ _enter_normal_mode_arm("irq")
    \/ _enter_normal_mode_mode("irq")
    \/ fw_ack
    \/ coord_write
    \/ coord_read
    \/ store_x
    \/ store_y
    \/ set_event
    \/ info_ack

TouchNext ==
    \/ AppCall
    \/ AppStep
    \/ irq_fire
    \/ IrqStep

Init == EpdInit /\ GtInit /\ calc = None

SpecTouch == Init /\ [][TouchNext]_vars

\* The interpreter and gpiozero keep running a thread that can take a step;
\* nothing obliges the application to call or the INT line to fire.
FairSpecTouch == SpecTouch /\ WF_vars(AppStep) /\ WF_vars(IrqStep)


SpecEpd == Init /\ [][EpdNext]_vars

(***************************************************************************)
(* The touch driver with a record of every sample the handler has read     *)
(* from the controller (lines 229-231), for the properties that relate     *)
(* what input() returns to those samples.                                  *)
(***************************************************************************)
SamplesInit == EpdInit /\ GtInit /\ calc = [samples |-> {}]

\* the application starts the driver and asks for input
SamplesCall ==
    \/ GT_start
    \/ GT_input

SamplesStep ==
    \/ _reset_disarm("app")
    \/ _reset_high("app")
    \/ _reset_low("app")
    \/ _reset_high2("app")
    \/ _enter_normal_mode_arm("app")
    \/ _enter_normal_mode_mode("app")
    \/ _get_product_id_write
    \/ _get_product_id_read
    \/ set_started
    \/ input_old_x
    \/ input_old_y
    \/ input_new_x
    \/ input_new_y
    \/ input_clear
    \/ input_while
    \/ input_wait

SamplesNext ==
    \/ SamplesCall
    \/ SamplesStep
    \/ irq_fire
    \/ IrqStep

SpecSamples == SamplesInit /\ [][SamplesNext]_vars

(***************************************************************************)
(* EPD2in13._set_display_RAM_size applied to a freshly constructed driver  *)
(* for windows with 8-aligned x and 16-bit y, for coords=None (the full    *)
(* update) and for the window display() passes for a partial update.       *)
(***************************************************************************)
WindowXs == {0, 8, 64, 120}
WindowYs == {0, 1, 249, 255, 256, 65535}

PartialWindow == << 0, 121, 0, 249 >>

Windows ==
    {None, PartialWindow} \cup
    { << x_start, x_end, y_start, y_end >> :
        x_start \in WindowXs, x_end \in WindowXs,
        y_start \in WindowYs, y_end \in WindowYs }

WindowInit ==
    /\ EpdInit
    /\ GtInit
    /\ calc \in [coords : Windows]

set_display_RAM_size_call ==
    EpdCommit(_set_display_RAM_size(EpdState, calc.coords),
              "_set_display_RAM_size", FALSE, None, epd_opened)

SpecWindow == WindowInit /\ [][set_display_RAM_size_call]_vars

(***************************************************************************)
(* GT1151._send_command applied to every command byte and data byte: the   *)
(* three transfers are put on the bus one after the other.                 *)
(***************************************************************************)
Byte == 0..255

ChecksumInit ==
    /\ EpdInit
    /\ GtInit
    /\ calc \in [command : Byte, data : Byte, written : {<< >>}]

send_command_write ==
    /\ Len(calc.written) < 3
    /\ "bus" \in gt.ports
    /\ calc' = [calc EXCEPT !.written =
                    Append(@, _send_command(calc.command, calc.data)[Len(@) + 1])]
    /\ gt' = [gt EXCEPT !.i2c_last =
                    _send_command(calc.command, calc.data)[Len(calc.written) + 1]]
    /\ UNCHANGED epd_vars

SpecChecksum == ChecksumInit /\ [][send_command_write]_vars

(***************************************************************************)
(* Properties of the display driver, checked under SpecEpd                 *)
(***************************************************************************)
\* the number of bytes the last call wrote to the SPI bus
EpdSent == Len(epd_log) - epd_mark

PanelImage == << WIDTH, HEIGHT >>

\* what the last call wrote to the SPI bus, as (DC level, byte)
CallTrace == SubSeq(epd_log, epd_mark + 1, Len(epd_log))

\* C1: in every reachable state the refresh budget is an integer in
\* 0.._MAX_PARTIAL_REFRESH, never undefined, also before the first full update.
C1_BudgetInRange ==
    /\ _remaining_partial_refresh # None
    /\ Val(_remaining_partial_refresh) \in 0.._MAX_PARTIAL_REFRESH

\* C2: after a full update of an opened display with a panel-sized image the
\* call has returned and the budget equals _MAX_PARTIAL_REFRESH.
C2_FullUpdateSetsBudget ==
    (epd_op = "display" /\ epd_full /\ epd_opened /\ epd_img = PanelImage)
        => /\ epd_exc = "none"
           /\ _remaining_partial_refresh = PyInt(_MAX_PARTIAL_REFRESH)

\* C4: a full update issued right after a failed partial update on an opened
\* display succeeds and sets the budget to _MAX_PARTIAL_REFRESH (the retry
\* pattern "partial, on failure full" ends with the image displayed).
C4_FullAfterFailedPartial ==
    [][ ( /\ epd_op = "display" /\ ~ epd_full /\ epd_exc # "none"
          /\ epd_opened /\ epd_img = PanelImage
          /\ epd_op' = "display" /\ epd_full' /\ epd_img' = PanelImage )
        => ( /\ epd_exc' = "none"
             /\ _remaining_partial_refresh' = PyInt(_MAX_PARTIAL_REFRESH) ) ]_vars

\* C5: display() with an image whose size differs from the panel geometry
\* fails with EpaperException and writes nothing to the bus.
C5_WrongSizeRejected ==
    (epd_op = "display" /\ epd_img # PanelImage)
        => (epd_exc = "EpaperException" /\ EpdSent = 0)

\* C10: display() and clear() on a driver that is not open (before open(),
\* after close()) fail without writing a byte to the bus.
C10_NoTransferUnlessOpen ==
    (epd_op \in {"display", "clear"} /\ ~ epd_opened)
        => (epd_exc # "none" /\ EpdSent = 0)

\* C16: a full update of an opened display ends, whatever the BUSY line
\* does, by returning or by raising the timeout error of the busy wait.
C16_FullUpdateEnds ==
    (epd_op = "display" /\ epd_full /\ epd_opened)
        => epd_exc \in {"none", "HardwareTimeout"}

\* the positions in the last call's trace at which command cmd_key was sent
SentAt(cmd_key) ==
    { k \in 1..Len(CallTrace) : CallTrace[k] = << 0, Val(EPD_COMMAND(cmd_key)) >> }

\* C17: display() of a panel-sized image on an opened display sends the
\* initialization sequence and after it write_ram_bw with the frame; a full
\* update sends the temperature sensor command in between and ends with the
\* budget at _MAX_PARTIAL_REFRESH, a partial update never sends it.
C17_UpdateSequence ==
    (epd_op = "display" /\ epd_opened /\ epd_img = PanelImage) =>
        /\ \E i \in SentAt("driver_output_control"), w \in SentAt("write_ram_bw") :
              /\ i < w
              /\ epd_full =>
                    \E s \in SentAt("temperature_sensor_control") : i < s /\ s < w
        /\ epd_full => _remaining_partial_refresh = PyInt(_MAX_PARTIAL_REFRESH)
        /\ ~ epd_full => SentAt("temperature_sensor_control") = {}

\* C15: a call of open(), close(), clear(), __enter__ or __exit__ leaves the
\* refresh budget as it found it, whether it returns or raises; the budget
\* found after an open() is the one left before the close() preceding it.
C15_BudgetFrame ==
    [][ epd_op' \in {"open", "close", "clear", "__enter__", "__exit__"}
        => _remaining_partial_refresh' = _remaining_partial_refresh ]_vars

\* open() was called again on a driver that was opened and then closed
C15_Witness ==
    /\ epd_op = "open"
    /\ epd_ports = {}
    /\ \E j, k \in 1..Len(epd_log) :
          /\ j < k
          /\ epd_log[j] = << 0, Val(EPD_COMMAND("reset")) >>
          /\ epd_log[k] = << 0, Val(EPD_COMMAND("deep_sleep_mode")) >>

(***************************************************************************)
(* Properties of the touch driver, checked under SpecTouch (C7 under       *)
(* FairSpecTouch)                                                          *)
(***************************************************************************)
\* the step is taken by the application thread
AppMoved == gt' # gt /\ gt'.pc["irq"] = gt.pc["irq"]

InInput == gt.app_op = "input" /\ gt.pc["app"] # "idle"

InputLoop ==
    {"input_old_x", "input_old_y", "input_new_x", "input_new_y", "input_clear",
     "input_while", "input_wait", "input_loop_x", "input_loop_y"}

\* C6: every return of input() answers a read of the handler whose (x, y)
\* differs from the read before it, and no such read is answered twice: a
\* read of an unchanged (x, y) never gives a return, and one read never gives
\* two returns.
C6_DedupLaw ==
    [][ (gt.pc["app"] = "input_while" /\ gt'.pc["app"] = "idle")
        => gt.pending > 0 ]_vars

\* C7: every call of input() ends, by returning or by raising, even if the
\* INT line never fires.
C7_InputTerminates == InInput ~> ~ InInput

\* C8 as stated: a call of input() while the mode is not normal does not get
\* past its checks (it raises and leaves mode, TRST and callback alone).
C8_InputOnlyInNormal ==
    [][ (gt.pc["app"] = "idle" /\ gt._mode # "normal" /\ AppMoved
         /\ gt'.app_op = "input")
        => gt'.pc["app"] = "idle" ]_vars

\* C8 amended: a call of input() in sleep mode on a started, not stopped
\* driver does not raise: it starts the reset pulse of _enter_normal_mode,
\* and whenever input() reads or waits for coordinates the mode is normal.
C8_InputWakesFromSleep ==
    /\ [][ (gt.pc["app"] = "idle" /\ gt._mode = "sleep" /\ gt._started
            /\ ~ gt._stopped /\ AppMoved /\ gt'.app_op = "input")
           => (gt'.pc["app"] = "reset_disarm" /\ gt'.exc["app"] = "none") ]_vars
    /\ []((gt.app_op = "input" /\ gt.pc["app"] \in InputLoop)
           => gt._mode = "normal")

\* input() called in sleep mode has pulsed TRST, armed the coordinate
\* callback and is about to record the normal mode
C8_Witness ==
    /\ gt.app_op = "input" /\ gt.pc["app"] = "normal_mode"
    /\ gt._mode = "sleep" /\ gt.trst = 1
    /\ gt.when_pressed = "_process_coordinate_reading"

\* C9: once stop() has returned, (a) no step transfers on the bus, writes
\* TRST or releases a handle, (b) stop(), start(), sleep(), input() and
\* __enter__ all end by raising, stop() at once, (c) __exit__ returns
\* without raising.
C9_AfterStop ==
    /\ [][ gt._stopped => ( /\ gt'.i2c_last = gt.i2c_last
                            /\ gt'.trst = gt.trst
                            /\ gt'.ports = gt.ports ) ]_vars
    /\ [][ (gt._stopped /\ gt.pc["app"] = "idle" /\ AppMoved
            /\ gt'.app_op = "stop")
           => (gt'.pc["app"] = "idle" /\ gt'.exc["app"] # "none") ]_vars
    /\ []((gt._stopped /\ gt.pc["app"] = "idle"
           /\ gt.app_op \in {"start", "sleep", "input", "__enter__"})
           => gt.exc["app"] # "none")
    /\ []((gt._stopped /\ gt.pc["app"] = "idle" /\ gt.app_op = "__exit__")
           => gt.exc["app"] = "none")

\* after stop() a with-statement was entered again and __enter__ has raised
C9_Witness ==
    /\ gt._stopped /\ gt.pc["app"] = "idle"
    /\ gt.app_op = "__enter__" /\ gt.exc["app"] = "GPIODeviceClosed"

\* the statements that transfer on the I2C bus, by program counter
BusSteps ==
    {"pid_write", "pid_read", "sleep_command", "sleep_data", "sleep_checksum",
     "info_write", "info_read", "fw_write", "fw_read", "fw_ack", "coord_write",
     "coord_read", "info_ack"}

\* a thread here has sent the first transfer of a transaction and not yet
\* the last: the register address of _i2c_readbyte before its reads, the
\* command register of _send_command before the checksum register
MidTransaction ==
    {"pid_read", "info_read", "fw_read", "coord_read", "sleep_data",
     "sleep_checksum"}

OtherThread(T) == IF T = "app" THEN "irq" ELSE "app"

\* the statements that write the TRST line
TrstSteps == {"reset_high", "reset_low", "reset_high2"}

\* C11: while one thread is inside a bus transaction (the three writes of
\* _send_command, or the address write of _i2c_readbyte and its reads), the
\* other thread performs no transfer on the bus.
C11_BusExclusive ==
    [][ \A T \in Threads :
          ( /\ gt.pc[T] \in MidTransaction
            /\ gt'.pc[T] = gt.pc[T]
            /\ gt'.pc[OtherThread(T)] # gt.pc[OtherThread(T)]
            /\ "bus" \in gt.ports )
          => gt.pc[OtherThread(T)] \notin BusSteps ]_vars

\* C12: once stop() has closed the bus, the handler thread performs no
\* access to a line (a transfer on the closed bus raises without I/O): the
\* handler has ended before the handles are released.
C12_HandlerEndedBeforeRelease ==
    [][ ("bus" \notin gt.ports /\ gt'.pc["irq"] # gt.pc["irq"])
        => ~ (gt.pc["irq"] \in TrstSteps /\ "trst" \in gt.ports) ]_vars

\* the step is taken by the handler thread
IrqMoved == gt'.pc["irq"] # gt.pc["irq"]

\* the statements of a run of _answer_to_FW_request, the _enter_normal_mode
\* it calls included, and those of the buffer-ready branch of the handler
FwRun ==
    {"fw_write", "fw_read", "reset_disarm", "reset_high", "reset_low",
     "reset_high2", "normal_arm", "normal_mode", "fw_ack"}

ReadyRun ==
    {"coord_write", "coord_read", "store_x", "store_y", "set_event", "info_ack"}

C19_ReadyRunAcknowledged ==
    /\ [][ (gt.pc["irq"] \in ReadyRun /\ gt'.pc["irq"] = "idle"
            /\ gt.ports = GT_PORTS)
           => ( /\ gt.pc["irq"] = "info_ack"
                /\ gt'.exc["irq"] = "none"
                /\ gt'.i2c_last =
                      _i2c_writebyte(_REGISTER("coordinates_info"), 0) ) ]_vars
    /\ [][ (gt.pc["irq"] \in {"store_x", "store_y"} /\ IrqMoved
            /\ gt'.pc["irq"] # "idle")
           => gt.i \in 0..9 ]_vars

\* thread T records the normal mode, the application thread the sleep mode
EntersNormal(T) == gt.pc[T] = "normal_mode" /\ gt'.pc[T] # "normal_mode"

EntersSleep == gt.pc["app"] = "sleep_mode" /\ gt'.pc["app"] # "sleep_mode"

Comparing ==
    /\ gt.app_op = "input"
    /\ gt.pc["app"] \in {"input_new_x", "input_new_y", "input_clear",
                         "input_while", "input_wait", "input_loop_x",
                         "input_loop_y"}

\* the handler has stored the points of a sample and set the event, and
\* slot 0 differs from the coordinates input() compares against
Published ==
    /\ gt.pc["irq"] = "info_ack"
    /\ gt.n_touch_points > 0
    /\ << gt._x, gt._y >> # gt.old_coord

\* C21: once the handler has published, during a call of input(), a sample
\* that differs from the coordinates input() compares against, the call
\* ends unless the INT line fires again.
C21_NoLostWakeup ==
    (Comparing /\ Published) ~> (~ InInput \/ gt.pc["irq"] = "info_write")

\* C22: the pair input() is about to return is the (x, y) of one sample the
\* handler read from the controller, never the x of one sample with the y of
\* another.
C22_NoTornPair ==
    (gt.pc["app"] = "input_while" /\ gt.new_coord # gt.old_coord)
        => gt.new_coord \in calc.samples

\* a call that changes the mode has returned, the handler is not running
\* and the driver holds its handles
Settled ==
    /\ gt.pc["app"] = "idle" /\ gt.pc["irq"] = "idle"
    /\ gt.exc["app"] = "none"
    /\ gt.app_op \in {"__enter__", "start", "sleep", "input"}
    /\ ~ gt._stopped

\* C23: once a call that changes the mode has returned and no handler is
\* running, the recorded mode and the bound callback agree (normal: the
\* coordinate handler, sleep: the empty callback; no call enters the gesture
\* mode), and after sleep() the mode is still sleep.
C23_ModeMatchesHandler ==
    Settled =>
        /\ gt._mode = "normal"
               => gt.when_pressed = "_process_coordinate_reading"
        /\ gt._mode = "sleep" => gt.when_pressed = "noop"
        /\ gt.app_op = "sleep" => gt._mode = "sleep"

(***************************************************************************)
(* Properties of _set_display_RAM_size, checked under SpecWindow           *)
(***************************************************************************)
\* the window a call encodes: coords, or the whole panel for None
CalledWindow ==
    IF calc.coords = None THEN << 0, WIDTH - 1, 0, HEIGHT - 1 >> ELSE calc.coords

\* C14: a call of _set_display_RAM_size returns after sending set_ram_x with
\* two bytes and set_ram_y with two low/high pairs, every byte sent is in
\* 0..255, and decoding (x byte * 8, low + high * 256) gives back the window,
\* the driver's own windows included.
C14_WindowRoundTrip ==
    (epd_op = "_set_display_RAM_size") =>
        /\ epd_exc = "none"
        /\ Len(CallTrace) = 10
        /\ \A k \in 1..10 : CallTrace[k][2] \in 0..255
        /\ CallTrace[3] = << 0, Val(EPD_COMMAND("set_ram_x")) >>
        /\ CallTrace[6] = << 0, Val(EPD_COMMAND("set_ram_y")) >>
        /\ CallTrace[4][2] * 8 = CalledWindow[1]
        /\ CallTrace[5][2] * 8 = CalledWindow[2]
        /\ CallTrace[7][2] + CallTrace[8][2] * 256 = CalledWindow[3]
        /\ CallTrace[9][2] + CallTrace[10][2] * 256 = CalledWindow[4]

(***************************************************************************)
(* Properties of _send_command, checked under SpecChecksum                 *)
(***************************************************************************)
\* the register and the byte that a write_word_data of _i2c_writebyte carries
WrittenRegister(transfer) == transfer.cmd * 256 + (transfer.data % 256)

WrittenByte(transfer) == transfer.data \div 256

\* C13: for every command and data byte the writes go to the command,
\* command_data and command_checksum registers in this order, each carries
\* one byte in 0..255 (the command and the data unchanged), and the three
\* bytes written sum to 0 modulo 256.
C13_ChecksumLaw ==
    LET w == calc.written
        regs == << _REGISTER("command"), _REGISTER("command_data"),
                   _REGISTER("command_checksum") >>
    IN  /\ \A k \in 1..Len(w) :
              /\ w[k].op = "write_word_data"
              /\ w[k].data \in 0..65535
              /\ WrittenRegister(w[k]) = regs[k]
              /\ WrittenByte(w[k]) \in Byte
        /\ Len(w) >= 1 => WrittenByte(w[1]) = calc.command
        /\ Len(w) >= 2 => WrittenByte(w[2]) = calc.data
        /\ Len(w) = 3 =>
              (WrittenByte(w[1]) + WrittenByte(w[2]) + WrittenByte(w[3])) % 256 = 0

\* all three writes are out for a command and data whose sum exceeds 0x100,
\* so that 0x100 - command - data is negative before it is masked
C13_Witness ==
    /\ Len(calc.written) = 3
    /\ calc.command + calc.data > 256
    /\ WrittenByte(calc.written[3]) # 0

====
